---- MODULE Spec2Model ----
(***************************************************************************)
(* Model of the menu tree service of andhikadk/stk-test-be                  *)
(* (internal/services/menu_service.go) over its relational store.           *)
(*                                                                          *)
(* The store is the table "menus": a finite map from ids to rows.  Optional *)
(* columns and optional request fields (Go pointers) are sequences of       *)
(* length at most one: <<>> is nil / NULL / absent, <<v>> is a value.       *)
(***************************************************************************)
EXTENDS Integers, Sequences, FiniteSets, TLC

(* ---------------------------- bounds ----------------------------------- *)
\* number of ids uuid.New() hands out in one run (= number of inserts)
MaxIds == 3
\* number of mutating calls in one run
MaxOps == 4

(* ---------------------------- values ----------------------------------- *)
\* uuid.Nil, the all-zero uuid MoveMenu treats like a nil pointer
NilUUID == 0
\* ids of rows: the uuids BeforeCreate assigns
Ids == 1..MaxIds
\* a uuid no row ever has (a random uuid of a caller)
Ghost == MaxIds + 1
\* nil pointer / SQL NULL / absent request field
Null == <<>>
Some(v) == <<v>>
\* largest index a request carries (order_index, new_index, old_index)
MaxIdx == MaxIds - 1

VARIABLES
    menus,   \* the table menus: [present ids -> row]
    nextId,  \* the number of ids handed out so far
    fk,      \* TRUE: the table of the SQL migration (parent_id REFERENCES
             \* menus(id) ON DELETE CASCADE); FALSE: the table AutoMigrate
             \* makes in sqlite (testutil.SetupTestDB), no constraint enforced
    nops,    \* number of mutating calls made
    prev,    \* the table before the last call
    last,    \* the last call: its name, arguments and error ("" = success)
    tree,    \* the data of the last read: the forest GetMenuTree returned,
             \* or the row GetMenuByID returned
    procs    \* the concurrent requests in flight (SpecConc only)

vars == <<menus, nextId, fk, nops, prev, last, tree, procs>>

(* ------------------------- the row and queries -------------------------- *)
\* models.Menu: the stored columns
Menu(parent_id, title, path, icon, order_index) ==
    [parent_id |-> parent_id, title |-> title, path |-> path,
     icon |-> icon, order_index |-> order_index]

\* WHERE parent_id IS NULL  /  WHERE parent_id = ?
Siblings(store, parentID) ==
    {i \in DOMAIN store : store[i].parent_id = parentID}

\* A variant of the count without the parent_id filter: all rows.
getSiblingCountAll(store, parentID) == Cardinality(DOMAIN store)

getSiblingCount(store, parentID) == Cardinality(Siblings(store, parentID))

\* the foreign key of the migration: parent_id is NULL or the id of a row
FKViolated(store) ==
    fk /\ \E i \in DOMAIN store :
            store[i].parent_id # Null /\ store[i].parent_id[1] \notin DOMAIN store

Result(store, err) == [store |-> store, err |-> err]

Restrict(store, keep) == [i \in keep |-> store[i]]

(* ------------------------ request validation ---------------------------- *)
\* strings.TrimSpace(title) == "": the model's blank titles
Blank(title) == title \in {"", " "}

\* A variant of the validation that lets a negative order_index through.
ValidateCreateAnyIndex(req) ==
    IF Blank(req.title) THEN "title is required and cannot be empty" ELSE ""

\* dto.CreateMenuRequest.Validate (the length checks are out of the model:
\* every modelled string is short)
ValidateCreate(req) ==
    IF Blank(req.title) THEN "title is required and cannot be empty"
    ELSE IF req.order_index # Null /\ req.order_index[1] < 0
         THEN "order_index must be a non-negative integer"
    ELSE ""

\* dto.UpdateMenuRequest.Validate
ValidateUpdate(req) ==
    IF req.title # Null /\ Blank(req.title[1])
    THEN "title cannot be empty if provided"
    ELSE IF req.order_index # Null /\ req.order_index[1] < 0
         THEN "order_index must be a non-negative integer"
    ELSE ""

\* A variant of the validation that lets a negative old_index through.
ValidateReorderAnyOld(req) ==
    IF req.new_index < 0 THEN "new_index must be a non-negative integer"
    ELSE ""

\* dto.ReorderMenuRequest.Validate
ValidateReorder(req) ==
    IF req.new_index < 0 THEN "new_index must be a non-negative integer"
    ELSE IF req.old_index # Null /\ req.old_index[1] < 0
         THEN "old_index must be a non-negative integer if provided"
    ELSE ""

(* ------------------------------ Create ---------------------------------- *)
\* handlers.CreateMenu: the models.Menu built from the request
\* (OrderIndex 0 unless the request carries one)
CreateMenuModel(req) ==
    Menu(req.parent_id, req.title, req.path, req.icon,
         IF req.order_index # Null THEN req.order_index[1] ELSE 0)

\* A variant of the shift that leaves the sibling at orderIndex in place
\* (order_index > ? where the code has >=).
ShiftForInsertStrict(store, parentID, orderIndex) ==
    [i \in DOMAIN store |->
        IF store[i].parent_id = parentID /\ store[i].order_index > orderIndex
        THEN [store[i] EXCEPT !.order_index = @ + 1]
        ELSE store[i]]

\* UPDATE menus SET order_index = order_index + 1
\*  WHERE parent_id (IS NULL | = ?) AND order_index >= ?
ShiftForInsert(store, parentID, orderIndex) ==
    [i \in DOMAIN store |->
        IF store[i].parent_id = parentID /\ store[i].order_index >= orderIndex
        THEN [store[i] EXCEPT !.order_index = @ + 1]
        ELSE store[i]]

\* tx.Create(menu)
InsertRow(store, id, row) ==
    [i \in DOMAIN store \cup {id} |-> IF i = id THEN row ELSE store[i]]

\* MenuService.CreateMenu, one transaction
CreateMenu(store, id, menu) ==
    LET siblingCount == getSiblingCount(store, menu.parent_id)
        append  == menu.order_index >= siblingCount
        shifted == IF append THEN store
                   ELSE ShiftForInsert(store, menu.parent_id, menu.order_index)
        row     == IF append THEN [menu EXCEPT !.order_index = siblingCount]
                   ELSE menu
        after   == InsertRow(shifted, id, row)
    IN  IF FKViolated(after) THEN Result(store, "store error")
        ELSE Result(after, "")

\* A variant of the transaction whose ranged update has no parent_id filter.
ReorderTxAllGroups(store, id, parentID, actualOldIndex, newIndex) ==
    [i \in DOMAIN store |->
        IF i = id THEN [store[i] EXCEPT !.order_index = newIndex]
        ELSE IF actualOldIndex < newIndex
                /\ store[i].order_index > actualOldIndex
                /\ store[i].order_index <= newIndex
             THEN [store[i] EXCEPT !.order_index = @ - 1]
        ELSE IF actualOldIndex >= newIndex
                /\ store[i].order_index >= newIndex
                /\ store[i].order_index < actualOldIndex
             THEN [store[i] EXCEPT !.order_index = @ + 1]
        ELSE store[i]]

\* A variant of the transaction whose backward shift leaves out the sibling at
\* newIndex (order_index > newIndex where the code has >=).
ReorderTxExclusiveStart(store, id, parentID, actualOldIndex, newIndex) ==
    [i \in DOMAIN store |->
        IF i = id THEN [store[i] EXCEPT !.order_index = newIndex]
        ELSE IF store[i].parent_id # parentID THEN store[i]
        ELSE IF actualOldIndex < newIndex
                /\ store[i].order_index > actualOldIndex
                /\ store[i].order_index <= newIndex
             THEN [store[i] EXCEPT !.order_index = @ - 1]
        ELSE IF actualOldIndex >= newIndex
                /\ store[i].order_index > newIndex
                /\ store[i].order_index < actualOldIndex
             THEN [store[i] EXCEPT !.order_index = @ + 1]
        ELSE store[i]]

\* A variant of the transaction whose forward shift leaves out the sibling at
\* newIndex (order_index < newIndex where the code has <=).
ReorderTxExclusiveEnd(store, id, parentID, actualOldIndex, newIndex) ==
    [i \in DOMAIN store |->
        IF i = id THEN [store[i] EXCEPT !.order_index = newIndex]
        ELSE IF store[i].parent_id # parentID THEN store[i]
        ELSE IF actualOldIndex < newIndex
                /\ store[i].order_index > actualOldIndex
                /\ store[i].order_index < newIndex
             THEN [store[i] EXCEPT !.order_index = @ - 1]
        ELSE IF actualOldIndex >= newIndex
                /\ store[i].order_index >= newIndex
                /\ store[i].order_index < actualOldIndex
             THEN [store[i] EXCEPT !.order_index = @ + 1]
        ELSE store[i]]

(* ------------------------------ Reorder --------------------------------- *)
\* the transaction of ReorderMenu: the ranged shift of the other rows of the
\* group parentID, then the write of the row's own order_index
ReorderTx(store, id, parentID, actualOldIndex, newIndex) ==
    [i \in DOMAIN store |->
        IF i = id THEN [store[i] EXCEPT !.order_index = newIndex]
        ELSE IF store[i].parent_id # parentID THEN store[i]
        ELSE IF actualOldIndex < newIndex
                /\ store[i].order_index > actualOldIndex
                /\ store[i].order_index <= newIndex
             THEN [store[i] EXCEPT !.order_index = @ - 1]
        ELSE IF actualOldIndex >= newIndex
                /\ store[i].order_index >= newIndex
                /\ store[i].order_index < actualOldIndex
             THEN [store[i] EXCEPT !.order_index = @ + 1]
        ELSE store[i]]

\* newIndex after the clamp to siblingCount - 1
ClampIndex(newIndex, siblingCount) ==
    IF newIndex >= siblingCount THEN siblingCount - 1 ELSE newIndex

\* A variant that takes 0 where the code takes the stored order_index.
ActualOldIndexZero(menu, oldIndex) ==
    IF oldIndex # Null THEN oldIndex[1] ELSE 0

\* actualOldIndex: the caller's old_index if given, else the stored one
ActualOldIndex(menu, oldIndex) ==
    IF oldIndex # Null THEN oldIndex[1] ELSE menu.order_index

\* MenuService.ReorderMenu
ReorderMenu(store, id, newIndex, oldIndex) ==
    IF id \notin DOMAIN store THEN Result(store, "menu not found")
    ELSE IF newIndex < 0
         THEN Result(store, "invalid target position: index cannot be negative")
    ELSE LET menu == store[id]
             ni   == ClampIndex(newIndex, getSiblingCount(store, menu.parent_id))
             ao   == ActualOldIndex(menu, oldIndex)
         IN  IF ao = ni THEN Result(store, "")
             ELSE Result(ReorderTx(store, id, menu.parent_id, ao, ni), "")

(* ------------------------------ Update ---------------------------------- *)
\* handlers.UpdateMenu: the models.Menu built from the patch; an absent field
\* leaves the Go zero value (nil pointer, "" title, 0 order_index)
UpdateMenuModel(req) ==
    Menu(req.parent_id,
         IF req.title # Null THEN req.title[1] ELSE "",
         req.path, req.icon,
         IF req.order_index # Null THEN req.order_index[1] ELSE 0)

\* tx.Model(&Menu{}).Where("id = ?", id).Updates(map{title, parent_id, path, icon})
UpdateColumns(store, id, menu) ==
    [store EXCEPT ![id] = [@ EXCEPT !.title = menu.title,
                                    !.parent_id = menu.parent_id,
                                    !.path = menu.path,
                                    !.icon = menu.icon]]

\* A variant of UpdateMenu without the lookup of the row: the column update
\* of an id that names no row matches nothing and reports no error.
UpdateMenuNoLookup(store, id, menu) ==
    IF id \notin DOMAIN store THEN Result(store, "")
    ELSE LET currentMenu == store[id]
             r == IF menu.order_index # 0
                     /\ menu.order_index # currentMenu.order_index
                  THEN ReorderMenu(store, id, menu.order_index,
                                   Some(currentMenu.order_index))
                  ELSE Result(store, "")
             after == UpdateColumns(r.store, id, menu)
         IN  IF r.err # "" THEN r
             ELSE IF FKViolated(after) THEN Result(r.store, "store error")
             ELSE Result(after, "")

\* MenuService.UpdateMenu.  ReorderMenu runs on s.db, outside the
\* transaction tx, so a failure of the column update does not undo it.
UpdateMenu(store, id, menu) ==
    IF id \notin DOMAIN store THEN Result(store, "menu not found")
    ELSE LET currentMenu == store[id]
             r == IF menu.order_index # 0
                     /\ menu.order_index # currentMenu.order_index
                  THEN ReorderMenu(store, id, menu.order_index,
                                   Some(currentMenu.order_index))
                  ELSE Result(store, "")
             after == UpdateColumns(r.store, id, menu)
         IN  IF r.err # "" THEN r
             ELSE IF FKViolated(after) THEN Result(r.store, "store error")
             ELSE Result(after, "")

(* ------------------------------ Delete ---------------------------------- *)
\* the rows ON DELETE CASCADE removes with the rows S
RECURSIVE Cascade(_, _)
Cascade(store, S) ==
    LET T == S \cup {i \in DOMAIN store :
                        store[i].parent_id # Null /\ store[i].parent_id[1] \in S}
    IN  IF T = S THEN S ELSE Cascade(store, T)

\* DELETE FROM menus WHERE <rows S>
DeleteRows(store, S) ==
    Restrict(store, DOMAIN store \ (IF fk THEN Cascade(store, S) ELSE S))

\* A variant of DeleteMenu that closes the gap the row leaves in its group.
DeleteMenuRenumber(store, id) ==
    LET s1 == DeleteRows(store, Siblings(store, Some(id)))
        s2 == DeleteRows(s1, {id} \cap DOMAIN s1)
    IN  Result([i \in DOMAIN s2 |->
                   IF id \in DOMAIN store
                      /\ s2[i].parent_id = store[id].parent_id
                      /\ s2[i].order_index > store[id].order_index
                   THEN [s2[i] EXCEPT !.order_index = @ - 1]
                   ELSE s2[i]], "")

\* MenuService.DeleteMenu: the direct children, then the row
DeleteMenu(store, id) ==
    LET s1 == DeleteRows(store, Siblings(store, Some(id)))
    IN  Result(DeleteRows(s1, {id} \cap DOMAIN s1), "")

(* ------------------------------- Move ----------------------------------- *)
\* A variant of MoveMenu that also puts the moved row at the head of its new
\* group (order_index 0).
MoveMenuToHead(store, id, newParentID) ==
    IF newParentID # Null /\ newParentID[1] # NilUUID
       /\ newParentID[1] \notin DOMAIN store
    THEN Result(store, "parent menu not found")
    ELSE LET after == IF id \in DOMAIN store
                      THEN [store EXCEPT ![id].parent_id = newParentID,
                                         ![id].order_index = 0]
                      ELSE store
         IN  IF FKViolated(after) THEN Result(store, "store error")
             ELSE Result(after, "")

\* MenuService.MoveMenu
MoveMenu(store, id, newParentID) ==
    IF newParentID # Null /\ newParentID[1] # NilUUID
       /\ newParentID[1] \notin DOMAIN store
    THEN Result(store, "parent menu not found")
    ELSE LET after == IF id \in DOMAIN store
                      THEN [store EXCEPT ![id].parent_id = newParentID]
                      ELSE store
         IN  IF FKViolated(after) THEN Result(store, "store error")
             ELSE Result(after, "")

(* ------------------------------ GetByID --------------------------------- *)
\* the orders in which a query without ORDER BY may return the rows S
Perms(S) ==
    {s \in [1..Cardinality(S) -> S] : \A a, b \in DOMAIN s : a # b => s[a] # s[b]}

\* MenuService.GetMenuByID: the row with its direct children preloaded, in
\* the order children the database returned them
GetMenuByID(store, id, children) ==
    IF id \notin DOMAIN store THEN [menu |-> <<>>, err |-> "menu not found"]
    ELSE [menu |-> <<[id |-> id, row |-> store[id],
                     children |-> [k \in 1..Len(children) |->
                                     [id |-> children[k],
                                      row |-> store[children[k]],
                                      children |-> <<>>]]]>>,
          err |-> ""]

(* ------------------------------ GetTree --------------------------------- *)
\* db.Order("order_index ASC").Find(&allMenus): the ids of all rows in some
\* order the database may return them, ascending order_index
OrderedLoads(store) ==
    {s \in [1..Cardinality(DOMAIN store) -> DOMAIN store] :
        /\ \A a, b \in DOMAIN s : a # b => s[a] # s[b]
        /\ \A a, b \in DOMAIN s :
              a < b => store[s[a]].order_index <= store[s[b]].order_index}

\* MenuService.buildChildren
RECURSIVE buildChildren(_, _, _)
buildChildren(parentID, store, allMenus) ==
    LET found == SelectSeq(allMenus,
                           LAMBDA c : store[c].parent_id = Some(parentID))
    IN  [k \in 1..Len(found) |->
            [id |-> found[k], row |-> store[found[k]],
             children |-> buildChildren(found[k], store, allMenus)]]

\* A variant of GetMenuTree that takes every loaded row as a root.
GetMenuTreeAllRoots(store, allMenus) ==
    [k \in 1..Len(allMenus) |->
        [id |-> allMenus[k], row |-> store[allMenus[k]],
         children |-> IF store[allMenus[k]].parent_id = Null
                      THEN buildChildren(allMenus[k], store, allMenus)
                      ELSE <<>>]]

\* A variant of GetMenuTree that also takes as roots the rows whose parent_id
\* names no row.
GetMenuTreeOrphanRoots(store, allMenus) ==
    LET roots == SelectSeq(allMenus,
                    LAMBDA c : \/ store[c].parent_id = Null
                               \/ store[c].parent_id[1] \notin DOMAIN store)
    IN  [k \in 1..Len(roots) |->
            [id |-> roots[k], row |-> store[roots[k]],
             children |-> buildChildren(roots[k], store, allMenus)]]

\* MenuService.GetMenuTree
GetMenuTree(store, allMenus) ==
    LET roots == SelectSeq(allMenus, LAMBDA c : store[c].parent_id = Null)
    IN  [k \in 1..Len(roots) |->
            [id |-> roots[k], row |-> store[roots[k]],
             children |-> buildChildren(roots[k], store, allMenus)]]

(* --------------------------- request inputs ----------------------------- *)
\* parent ids a request may name: none, the id of a row, an unused uuid
ParentIds(store) == {Null, Some(Ghost)} \cup {Some(i) : i \in DOMAIN store}

\* ids a request may address: the id of a row, or an unused uuid
TargetIds(store) == DOMAIN store \cup {Ghost}

OptIndex == {Null} \cup {Some(n) : n \in 0..MaxIdx}

\* an index below zero, as a caller may send it
Negative == 0 - 1

CreateRequests(store) ==
    [parent_id : ParentIds(store), title : {"a"}, path : {Some("p")},
     icon : {Some("i")}, order_index : OptIndex \cup {Some(Negative)}]

\* the patches: each field absent or present; a patch carries texts
\* (title, path, icon) or a position (parent_id, order_index)
UpdateRequests(store) ==
    {r \in [parent_id : ParentIds(store), title : {Null, Some("b")},
            path : {Null, Some("q")}, icon : {Null, Some("j")},
            order_index : OptIndex] :
        \/ r.parent_id = Null /\ r.order_index = Null
        \/ r.title = Null /\ r.path = Null /\ r.icon = Null}
    \cup {[parent_id |-> Null, title |-> Null, path |-> Null, icon |-> Null,
           order_index |-> Some(Negative)]}

\* the one patch sent to an id that names no row
GhostPatch ==
    [parent_id |-> Null, title |-> Some("b"), path |-> Null, icon |-> Null,
     order_index |-> Null]

UpdateCalls(store) ==
    ((DOMAIN store) \X UpdateRequests(store)) \cup {<<Ghost, GhostPatch>>}

MoveRequests(store) ==
    [parent_id : ParentIds(store) \cup {Some(NilUUID)}]

ReorderRequests ==
    [new_index : 0..MaxIdx, old_index : OptIndex]
    \cup {[new_index |-> Negative, old_index |-> Null],
          [new_index |-> 0, old_index |-> Some(Negative)]}

ReorderCalls(store) ==
    ((DOMAIN store) \X ReorderRequests)
        \cup {<<Ghost, [new_index |-> 0, old_index |-> Null]>>}

Call(op, id, req, err) == [op |-> op, id |-> id, req |-> req, err |-> err]

NoCall == Call("", NilUUID, Null, "")

EmptyStore == [i \in {} |-> Null]

(* ------------------------------ the machine ----------------------------- *)
Init ==
    /\ menus = EmptyStore
    /\ nextId = 0
    /\ fk \in BOOLEAN
    /\ nops = 0
    /\ prev = EmptyStore
    /\ last = NoCall
    /\ tree = <<>>
    /\ procs = <<>>

\* the server is idle: no request is being served
Idle == last = NoCall

\* the bookkeeping every call of the sequential machine shares
Done(op, id, req, r) ==
    /\ Idle
    /\ menus' = r.store
    /\ prev' = menus
    /\ last' = Call(op, id, req, r.err)
    /\ nops' = nops + 1
    /\ tree' = <<>>
    /\ UNCHANGED <<fk, procs>>

\* POST /api/menus
Create ==
    /\ nops < MaxOps
    /\ nextId < MaxIds
    /\ \E req \in CreateRequests(menus) :
          LET v == ValidateCreate(req)
              r == IF v # "" THEN Result(menus, v)
                   ELSE CreateMenu(menus, nextId + 1, CreateMenuModel(req))
          IN  /\ Done("Create", nextId + 1, req, r)
              /\ nextId' = IF r.err = "" THEN nextId + 1 ELSE nextId

\* PUT /api/menus/:id
Update ==
    /\ nops < MaxOps
    /\ \E c \in UpdateCalls(menus) :
          LET id  == c[1]
              req == c[2]
              v == ValidateUpdate(req)
              r == IF v # "" THEN Result(menus, v)
                   ELSE UpdateMenu(menus, id, UpdateMenuModel(req))
          IN  Done("Update", id, req, r)
    /\ UNCHANGED nextId

\* DELETE /api/menus/:id
Delete ==
    /\ nops < MaxOps
    /\ \E id \in TargetIds(menus) :
          Done("Delete", id, Null, DeleteMenu(menus, id))
    /\ UNCHANGED nextId

\* PATCH /api/menus/:id/move
Move ==
    /\ nops < MaxOps
    /\ \E id \in TargetIds(menus), req \in MoveRequests(menus) :
          Done("Move", id, req, MoveMenu(menus, id, req.parent_id))
    /\ UNCHANGED nextId

\* PATCH /api/menus/:id/reorder
Reorder ==
    /\ nops < MaxOps
    /\ \E c \in ReorderCalls(menus) :
          LET id  == c[1]
              req == c[2]
              v == ValidateReorder(req)
              r == IF v # "" THEN Result(menus, v)
                   ELSE ReorderMenu(menus, id, req.new_index, req.old_index)
          IN  Done("Reorder", id, req, r)
    /\ UNCHANGED nextId

\* GET /api/menus
GetTree ==
    /\ Idle
    /\ \E allMenus \in OrderedLoads(menus) :
          tree' = GetMenuTree(menus, allMenus)
    /\ prev' = menus
    /\ last' = Call("GetTree", NilUUID, Null, "")
    /\ UNCHANGED <<menus, nextId, fk, nops, procs>>

\* GET /api/menus/:id
GetByID ==
    /\ Idle
    /\ \E id \in TargetIds(menus) :
          \E children \in Perms(Siblings(menus, Some(id))) :
             LET r == GetMenuByID(menus, id, children)
             IN  /\ tree' = r.menu
                 /\ last' = Call("GetByID", id, Null, r.err)
    /\ prev' = menus
    /\ UNCHANGED <<menus, nextId, fk, nops, procs>>

\* the handler's return c.Status(..).JSON(..): the response is written and
\* the server takes the next request
Respond ==
    /\ ~Idle
    /\ last' = NoCall
    /\ prev' = menus
    /\ tree' = <<>>
    /\ UNCHANGED <<menus, nextId, fk, nops, procs>>

Next ==
    Create \/ Update \/ Delete \/ Move \/ Reorder \/ GetTree \/ GetByID
        \/ Respond

Spec == Init /\ [][Next]_vars

\* C1 is about runs of Create and Reorder calls alone
NextCreateReorder == Create \/ Reorder \/ Respond

SpecCreateReorder == Init /\ [][NextCreateReorder]_vars

(* ------------------- two concurrent Reorder requests -------------------- *)
\* n root rows 0..n-1, as n Create calls leave them
RECURSIVE Roots(_)
Roots(n) ==
    IF n = 0 THEN EmptyStore
    ELSE CreateMenu(Roots(n - 1), n,
                    Menu(Null, "a", Some("p"), Some("i"), n - 1)).store

\* a request in flight: its arguments, its position in ReorderMenu, and the
\* locals menu, newIndex, actualOldIndex it has computed so far
ReorderProc(id, newIndex) ==
    [id |-> id, new_index |-> newIndex, old_index |-> Null, pc |-> "read",
     menu |-> Null, newIndex |-> 0, actualOldIndex |-> 0]

InitConcReorder ==
    /\ fk \in BOOLEAN
    /\ menus = Roots(MaxIds)
    /\ prev = Roots(MaxIds)
    /\ nextId = MaxIds
    /\ nops = 0
    /\ last = NoCall
    /\ tree = <<>>
    /\ procs \in [1..2 -> {ReorderProc(i, n) : i \in Ids, n \in 0..MaxIdx}]

\* s.db.Where("id = ?", id).First(&menu)
ReadNode(p) ==
    /\ procs[p].pc = "read"
    /\ procs' = [procs EXCEPT ![p] =
                    IF procs[p].id \in DOMAIN menus
                    THEN [procs[p] EXCEPT !.menu = Some(menus[procs[p].id]),
                                          !.pc = "count"]
                    ELSE [procs[p] EXCEPT !.pc = "done"]]
    /\ UNCHANGED <<menus, nextId, fk, nops, prev, last, tree>>

\* s.getSiblingCount(menu.ParentID), the clamp, actualOldIndex and the
\* early return when they are equal
CountSiblings(p) ==
    /\ procs[p].pc = "count"
    /\ LET menu == procs[p].menu[1]
           ni   == ClampIndex(procs[p].new_index,
                              getSiblingCount(menus, menu.parent_id))
           ao   == ActualOldIndex(menu, procs[p].old_index)
       IN  procs' = [procs EXCEPT ![p] =
                        [procs[p] EXCEPT
                            !.newIndex = ni, !.actualOldIndex = ao,
                            !.pc = IF ao = ni THEN "done" ELSE "tx"]]
    /\ UNCHANGED <<menus, nextId, fk, nops, prev, last, tree>>

\* s.db.Transaction(...): the shift and the set, committed together
ShiftAndSet(p) ==
    /\ procs[p].pc = "tx"
    /\ menus' = ReorderTx(menus, procs[p].id, procs[p].menu[1].parent_id,
                          procs[p].actualOldIndex, procs[p].newIndex)
    /\ procs' = [procs EXCEPT ![p].pc = "done"]
    /\ UNCHANGED <<nextId, fk, nops, prev, last, tree>>

NextConcReorder ==
    \E p \in 1..2 : ReadNode(p) \/ CountSiblings(p) \/ ShiftAndSet(p)

SpecConcReorder == InitConcReorder /\ [][NextConcReorder]_vars

(* ======================= vocabulary of the claims ======================= *)
\* the sibling group parentID has order_index values exactly 0..k-1
Dense(store, parentID) ==
    {store[i].order_index : i \in Siblings(store, parentID)}
        = 0..(getSiblingCount(store, parentID) - 1)

AllDense(store) == \A i \in DOMAIN store : Dense(store, store[i].parent_id)

\* the last call succeeded and was op
Acted(op) == last.op = op /\ last.err = ""

\* the ids of a dense group in the order of their order_index
GroupOrder(store, parentID) ==
    [n \in 1..getSiblingCount(store, parentID) |->
        CHOOSE i \in Siblings(store, parentID) : store[i].order_index = n - 1]

\* seq with id taken out and put back at the 0-based position j
Reinserted(seq, id, j) ==
    LET rest == SelectSeq(seq, LAMBDA x : x # id)
    IN  SubSeq(rest, 1, j) \o <<id>> \o SubSeq(rest, j + 1, Len(rest))

Min(a, b) == IF a < b THEN a ELSE b

(* ================================ C1 =================================== *)
\* C1: from the empty store, after any sequence of Create and Reorder calls
\* every sibling group has order_index values exactly 0..k-1.
C1_DenseAfterCreateReorder == AllDense(menus)

(* ================================ C2 =================================== *)
\* C2: each of Create, Delete, Move and Reorder preserves sibling density:
\* all groups dense before a successful call => all groups dense after it.
C2_EachCallPreservesDensity ==
    (/\ last.op \in {"Create", "Delete", "Move", "Reorder"}
     /\ last.err = ""
     /\ AllDense(prev))
        => AllDense(menus)

(* ================================ C3 =================================== *)
\* the case of C3: a successful Reorder of a row of a dense group of size k
\* to j < k, old_index omitted or equal to the stored index
C3_Case ==
    /\ Acted("Reorder")
    /\ last.id \in DOMAIN prev
    /\ Dense(prev, prev[last.id].parent_id)
    /\ last.req.new_index < getSiblingCount(prev, prev[last.id].parent_id)
    /\ last.req.old_index \in {Null, Some(prev[last.id].order_index)}

\* C3: Reorder moves one element and shifts the span between: the row ends at
\* j; moving forward the siblings in (i, j] go down by one, moving backward the
\* siblings in [j, i) go up by one, every other sibling keeps its index; the
\* group's order is the old order with the row taken out and reinserted at j.
C3_ReorderShiftsSpan ==
    C3_Case =>
        LET id == last.id
            g  == prev[id].parent_id
            i  == prev[id].order_index
            j  == last.req.new_index
        IN  /\ DOMAIN menus = DOMAIN prev
            /\ menus[id].order_index = j
            /\ \A s \in Siblings(prev, g) \ {id} :
                  menus[s].order_index =
                      IF i < j /\ i < prev[s].order_index
                               /\ prev[s].order_index <= j
                      THEN prev[s].order_index - 1
                      ELSE IF i > j /\ j <= prev[s].order_index
                                    /\ prev[s].order_index < i
                      THEN prev[s].order_index + 1
                      ELSE prev[s].order_index
            /\ Siblings(menus, g) = Siblings(prev, g)
            /\ Dense(menus, g)
            /\ GroupOrder(menus, g) = Reinserted(GroupOrder(prev, g), id, j)

\* three siblings 0,1,2 and Reorder(first, 2, 0) give 2,0,1
C3_Witness ==
    /\ C3_Case
    /\ getSiblingCount(prev, prev[last.id].parent_id) = 3
    /\ prev[last.id].order_index = 0
    /\ last.req = [new_index |-> 2, old_index |-> Some(0)]
    /\ {menus[s].order_index : s \in Siblings(prev, prev[last.id].parent_id) \ {last.id}}
          = {0, 1}
    /\ menus[last.id].order_index = 2

(* ================================ C4 =================================== *)
\* C4: after every successful Reorder the row's stored order_index is
\* min(new_index, k-1), k the size of its sibling group, whatever old_index
\* the caller supplied.
C4_ReorderEndsAtClampedIndex ==
    (Acted("Reorder") /\ last.id \in DOMAIN prev) =>
        menus[last.id].order_index =
            Min(last.req.new_index,
                getSiblingCount(prev, prev[last.id].parent_id) - 1)

(* ================================ C5 =================================== *)
\* the store after the calls a then b of procs run one after the other
OneAfterTheOther(a, b) ==
    LET first == ReorderMenu(prev, procs[a].id, procs[a].new_index,
                             procs[a].old_index).store
    IN  ReorderMenu(first, procs[b].id, procs[b].new_index,
                    procs[b].old_index).store

\* C5: two concurrent Reorder calls on one sibling group serialize: when both
\* have returned, the store is what the two calls give run one after the
\* other in some order, and the group is dense.
C5_ConcurrentReordersSerialize ==
    (\A p \in 1..2 : procs[p].pc = "done") =>
        /\ menus \in {OneAfterTheOther(1, 2), OneAfterTheOther(2, 1)}
        /\ AllDense(menus)

(* ================================ C6 =================================== *)
\* id and all its transitive descendants in store
Subtree(store, id) == Cascade(store, {id})

\* C6: after a successful Delete(X), X and every transitive descendant of X
\* are gone, and no remaining row has the parent_id of a deleted row.
C6_CascadeDelete ==
    (Acted("Delete") /\ last.id \in DOMAIN prev) =>
        /\ Subtree(prev, last.id) \cap DOMAIN menus = {}
        /\ \A i \in DOMAIN menus :
              menus[i].parent_id = Null
              \/ menus[i].parent_id[1] \notin (DOMAIN prev \ DOMAIN menus)

(* ================================ C7 =================================== *)
\* the ids met on the chain of parent_id links from row i, at most n links
RECURSIVE Ancestors(_, _, _)
Ancestors(store, i, n) ==
    IF n = 0 \/ store[i].parent_id = Null THEN {}
    ELSE LET q == store[i].parent_id[1]
         IN  {q} \cup (IF q \in DOMAIN store
                       THEN Ancestors(store, q, n - 1) ELSE {})

AncestorsOf(store, i) == Ancestors(store, i, Cardinality(DOMAIN store))

\* C7: in every reachable state the parent relation is a forest: no row is
\* its own ancestor (in particular none has parent_id equal to its own id).
C7_Acyclic == \A i \in DOMAIN menus : i \notin AncestorsOf(menus, i)

(* ================================ C8 =================================== *)
\* C8: in every reachable state every parent_id is null or the id of a row
\* of the store.
C8_ParentExists ==
    \A i \in DOMAIN menus :
        menus[i].parent_id = Null \/ menus[i].parent_id[1] \in DOMAIN menus

(* ================================ C9 =================================== *)
\* the places of a forest: each node's id with the id it is nested under
RECURSIVE Places(_, _)
Places(forest, under) ==
    IF Len(forest) = 0 THEN <<>>
    ELSE <<[id |-> forest[1].id, under |-> under]>>
            \o Places(forest[1].children, Some(forest[1].id))
            \o Places(Tail(forest), under)

\* every level of the forest lists its nodes in ascending order_index
RECURSIVE Ascending(_)
Ascending(forest) ==
    /\ \A k \in 1..(Len(forest) - 1) :
          forest[k].row.order_index <= forest[k + 1].row.order_index
    /\ \A k \in 1..Len(forest) : Ascending(forest[k].children)

PlacesOf(forest, id) ==
    LET ps == Places(forest, Null)
    IN  {k \in 1..Len(ps) : ps[k].id = id}

\* C9: the roots GetTree returns are exactly the rows with parent_id null;
\* every row with a non-null parent_id appears exactly once, nested directly
\* under the row its parent_id names; every level is in ascending
\* order_index; the empty store gives the empty list.
C9_TreeAssembly ==
    last.op = "GetTree" =>
        LET ps == Places(tree, Null)
        IN  /\ {tree[k].id : k \in 1..Len(tree)}
                  = {i \in DOMAIN menus : menus[i].parent_id = Null}
            /\ \A i \in DOMAIN menus :
                  /\ Cardinality(PlacesOf(tree, i)) = 1
                  /\ \A k \in PlacesOf(tree, i) :
                        ps[k].under = menus[i].parent_id
            /\ \A k \in 1..Len(ps) : ps[k].id \in DOMAIN menus
            /\ Ascending(tree)
            /\ (DOMAIN menus = {} => Len(tree) = 0)

(* ================================ C10 ================================== *)
\* C10: Update is a partial update: a field (title, parent_id, path, icon)
\* absent from the patch keeps its stored value.
C10_UpdateIsPartial ==
    (Acted("Update") /\ last.id \in DOMAIN prev) =>
        /\ last.req.title = Null =>
              menus[last.id].title = prev[last.id].title
        /\ last.req.parent_id = Null =>
              menus[last.id].parent_id = prev[last.id].parent_id
        /\ last.req.path = Null =>
              menus[last.id].path = prev[last.id].path
        /\ last.req.icon = Null =>
              menus[last.id].icon = prev[last.id].icon

(* ================================ C11 ================================== *)
\* the number of rows under the parent_id of the last Create, before it
CreateK == getSiblingCount(prev, last.req.parent_id)

\* C11: Create with order_index omitted, or with order_index >= k (k the
\* number of rows under the new row's parent_id), stores the new row at
\* order_index k and changes the order_index of no existing row.
C11_CreateAppends ==
    (Acted("Create")
     /\ (last.req.order_index = Null \/ last.req.order_index[1] >= CreateK)) =>
        /\ menus[last.id].order_index = CreateK
        /\ \A i \in DOMAIN prev : menus[i].order_index = prev[i].order_index

(* ================================ C12 ================================== *)
C12_Case ==
    /\ Acted("Create")
    /\ last.req.order_index # Null
    /\ last.req.order_index[1] < CreateK

\* C12: Create with a given order_index p < k stores the new row at p, adds
\* one to the order_index of every sibling at p or above, leaves the siblings
\* below p as they were, and changes no row outside the sibling group.
C12_CreateInsertsAndShifts ==
    C12_Case =>
        LET p == last.req.order_index[1]
            g == last.req.parent_id
        IN  /\ DOMAIN menus = DOMAIN prev \cup {last.id}
            /\ last.id \notin DOMAIN prev
            /\ menus[last.id] = [CreateMenuModel(last.req) EXCEPT !.order_index = p]
            /\ \A i \in DOMAIN prev :
                  menus[i] =
                      IF prev[i].parent_id = g /\ prev[i].order_index >= p
                      THEN [prev[i] EXCEPT !.order_index = @ + 1]
                      ELSE prev[i]

\* an insert at 1 between two siblings: the one at 0 stays, the one at 1 moves
C12_Witness ==
    /\ C12_Case
    /\ last.req.order_index = Some(1)
    /\ CreateK = 2
    /\ {menus[i].order_index : i \in Siblings(prev, last.req.parent_id)} = {0, 2}
    /\ menus[last.id].order_index = 1

(* ================================ C13 ================================== *)
C13_Case == Acted("Move") /\ last.id \in DOMAIN prev

\* C13: a successful Move of an existing row sets its parent_id to
\* new_parent_id and changes nothing else in the store.
C13_MoveWritesParentOnly ==
    C13_Case => menus = [prev EXCEPT ![last.id].parent_id = last.req.parent_id]

\* a row at index 1 of the root group is moved under another row
C13_Witness ==
    /\ C13_Case
    /\ prev[last.id].parent_id = Null
    /\ prev[last.id].order_index = 1
    /\ last.req.parent_id # Null
    /\ last.req.parent_id[1] \in DOMAIN prev \ {last.id}
    /\ menus[last.id].parent_id = last.req.parent_id

(* ================================ C14 ================================== *)
\* C14: Move with a non-null new_parent_id that is the id of no row fails
\* with "parent menu not found" and leaves the store unchanged.
C14_MoveToMissingParentFails ==
    (last.op = "Move"
     /\ last.req.parent_id # Null
     /\ last.req.parent_id[1] \notin DOMAIN prev) =>
        /\ last.err = "parent menu not found"
        /\ menus = prev

(* ================================ C15 ================================== *)
\* the last call was Reorder(id, x) with old_index omitted
C15_Case == last.op = "Reorder" /\ last.req.old_index = Null

\* C15: Reorder idempotence: after Reorder(id, x) with old_index omitted, the
\* same call made again (the service applied to the store the first call
\* left) leaves the store as it is.
C15_ReorderIdempotent ==
    C15_Case =>
        ReorderMenu(menus, last.id, last.req.new_index, Null).store = menus

\* the first call moved a row of a group of three
C15_Witness ==
    /\ C15_Case
    /\ Acted("Reorder")
    /\ last.id \in DOMAIN prev
    /\ getSiblingCount(prev, prev[last.id].parent_id) = 3
    /\ menus[last.id].order_index # prev[last.id].order_index
    /\ ReorderMenu(menus, last.id, last.req.new_index, Null).store = menus

(* ================================ C16 ================================== *)
\* the last call was a successful Reorder(id, new = j, old = i), i the stored
\* index of the row, on a dense group
C16_Case ==
    /\ Acted("Reorder")
    /\ last.id \in DOMAIN prev
    /\ Dense(prev, prev[last.id].parent_id)
    /\ last.req.old_index = Some(prev[last.id].order_index)

\* the store after the return call Reorder(id, new = i, old = j)
C16_Back ==
    ReorderMenu(menus, last.id, prev[last.id].order_index,
                Some(last.req.new_index))

\* C16: Reorder round trip: on a dense group, Reorder(id, new = j, old = i)
\* followed by Reorder(id, new = i, old = j) puts every row of the group back
\* at its original order_index.
C16_ReorderRoundTrip ==
    C16_Case =>
        /\ C16_Back.err = ""
        /\ \A s \in Siblings(prev, prev[last.id].parent_id) :
              C16_Back.store[s].order_index = prev[s].order_index

\* the first call moved the row from 2 to 0 in a group of three
C16_Witness ==
    /\ C16_Case
    /\ getSiblingCount(prev, prev[last.id].parent_id) = 3
    /\ prev[last.id].order_index = 2
    /\ last.req.new_index = 0
    /\ menus[last.id].order_index = 0
    /\ C16_Back.store = prev

(* ================================ C17 ================================== *)
\* C17: Delete of an id that names no row returns success and leaves the
\* store unchanged; so a second Delete(id) after a Delete(id) reports no error
\* and changes nothing.
C17_DeleteMissingIsNoOp ==
    /\ (last.op = "Delete" /\ last.id \notin DOMAIN prev) =>
          (last.err = "" /\ menus = prev)
    /\ Acted("Delete") => DeleteMenu(menus, last.id) = Result(menus, "")

(* ================================ C18 ================================== *)
\* the last call named a row that is not in the store, in a well-formed
\* request
C18_Case ==
    /\ last.op \in {"Update", "Reorder", "GetByID"}
    /\ last.id \notin DOMAIN prev
    /\ last.op = "Update" => ValidateUpdate(last.req) = ""
    /\ last.op = "Reorder" => ValidateReorder(last.req) = ""

\* C18: Update and Reorder of an id that names no row fail with "menu not
\* found" and leave the store unchanged; GetByID of such an id fails with the
\* same error.
C18_UnknownIdNotFound ==
    C18_Case =>
        /\ last.err = "menu not found"
        /\ menus = prev
        /\ last.op = "GetByID" => tree = <<>>

\* an Update of an unknown id on a store that holds two rows
C18_Witness ==
    /\ C18_Case
    /\ last.op = "Update"
    /\ Cardinality(DOMAIN prev) = 2
    /\ last.err = "menu not found"

(* ================================ C19 ================================== *)
\* the last call carried an index below zero
C19_Case ==
    \/ /\ last.op = "Reorder"
       /\ \/ last.req.new_index < 0
          \/ last.req.old_index # Null /\ last.req.old_index[1] < 0
    \/ /\ last.op \in {"Create", "Update"}
       /\ last.req.order_index # Null
       /\ last.req.order_index[1] < 0

\* C19: a negative index is always rejected with a validation error and no
\* state change, in Reorder (new_index or old_index) and in Create and Update
\* (order_index).
C19_NegativeIndexRejected ==
    C19_Case =>
        /\ last.err \in {"order_index must be a non-negative integer",
                         "new_index must be a non-negative integer",
                         "old_index must be a non-negative integer if provided"}
        /\ menus = prev

\* a Create with order_index -1 into a group that holds a row
C19_Witness ==
    /\ C19_Case
    /\ last.op = "Create"
    /\ getSiblingCount(prev, last.req.parent_id) > 0
    /\ last.err # ""
    /\ menus = prev

(* --------------- one transaction in flight, and a reader ---------------- *)
\* the ranged update of ReorderMenu's transaction alone: the other rows of
\* the group are shifted, the row id is not written yet
ReorderShift(store, id, parentID, actualOldIndex, newIndex) ==
    [i \in DOMAIN store |->
        IF i = id THEN store[i]
        ELSE ReorderTx(store, id, parentID, actualOldIndex, newIndex)[i]]

\* tx.Model(&Menu{}).Where("id = ?", id).Update("order_index", newIndex)
ReorderSet(store, id, newIndex) ==
    [store EXCEPT ![id].order_index = newIndex]

\* a ReorderMenu call that has read its row and the sibling count and is
\* about to open its transaction; work is the table as the transaction sees it
ReorderTxn(store, id, newIndex, oldIndex) ==
    [op |-> "Reorder", id |-> id, row |-> store[id],
     actualOldIndex |-> ActualOldIndex(store[id], oldIndex),
     newIndex |-> ClampIndex(newIndex,
                             getSiblingCount(store, store[id].parent_id)),
     shift |-> TRUE, pc |-> "begin", base |-> store, work |-> store]

\* a CreateMenu call that has opened its transaction and read the count
CreateTxn(store, id, menu) ==
    LET siblingCount == getSiblingCount(store, menu.parent_id)
        append == menu.order_index >= siblingCount
    IN  [op |-> "Create", id |-> id,
         row |-> IF append THEN [menu EXCEPT !.order_index = siblingCount]
                 ELSE menu,
         actualOldIndex |-> 0,
         newIndex |-> IF append THEN siblingCount ELSE menu.order_index,
         shift |-> ~append, pc |-> "begin", base |-> store, work |-> store]

\* the calls that reach a transaction on the store
TxCalls(store, id) ==
    {t \in {ReorderTxn(store, i, n, o) :
                i \in DOMAIN store, n \in 0..MaxIdx, o \in OptIndex} :
        t.actualOldIndex # t.newIndex}
    \cup {CreateTxn(store, id, Menu(g, "a", Some("p"), Some("i"), n)) :
                g \in ParentIds(store), n \in 0..MaxIdx}

InitTx ==
    /\ fk \in BOOLEAN
    /\ menus = Roots(MaxIds - 1)
    /\ prev = Roots(MaxIds - 1)
    /\ nextId = MaxIds - 1
    /\ nops = 0
    /\ last = NoCall
    /\ tree = <<>>
    /\ procs \in {<<t>> : t \in TxCalls(Roots(MaxIds - 1), MaxIds)}

\* A variant of the shift issued on the database handle instead of the
\* transaction: it is committed at once.
TxShiftOnDB(p) ==
    /\ procs[p].pc = "begin"
    /\ procs[p].shift
    /\ LET t == procs[p]
           w == IF t.op = "Reorder"
                THEN ReorderShift(t.work, t.id, t.row.parent_id,
                                  t.actualOldIndex, t.newIndex)
                ELSE ShiftForInsert(t.work, t.row.parent_id, t.newIndex)
       IN  /\ procs' = [procs EXCEPT ![p] = [t EXCEPT !.work = w,
                                                      !.pc = "shifted"]]
           /\ menus' = w
    /\ UNCHANGED <<nextId, fk, nops, prev, last, tree>>

\* the ranged update, inside the transaction: Reorder's -1 / +1 over the span,
\* Create's +1 from the insert position
TxShift(p) ==
    /\ procs[p].pc = "begin"
    /\ procs[p].shift
    /\ LET t == procs[p]
           w == IF t.op = "Reorder"
                THEN ReorderShift(t.work, t.id, t.row.parent_id,
                                  t.actualOldIndex, t.newIndex)
                ELSE ShiftForInsert(t.work, t.row.parent_id, t.newIndex)
       IN  procs' = [procs EXCEPT ![p] = [t EXCEPT !.work = w,
                                                   !.pc = "shifted"]]
    /\ UNCHANGED <<menus, nextId, fk, nops, prev, last, tree>>

\* the write of the row, inside the transaction: Reorder's Update of
\* order_index, Create's tx.Create; a foreign-key failure of the insert
\* returns the error and the transaction is rolled back
TxSet(p) ==
    /\ \/ procs[p].pc = "shifted"
       \/ procs[p].pc = "begin" /\ ~procs[p].shift
    /\ LET t == procs[p]
           w == IF t.op = "Reorder"
                THEN ReorderSet(t.work, t.id, t.newIndex)
                ELSE InsertRow(t.work, t.id, t.row)
       IN  procs' = [procs EXCEPT ![p] =
                        IF FKViolated(w) THEN [t EXCEPT !.pc = "aborted"]
                        ELSE [t EXCEPT !.work = w, !.pc = "written"]]
    /\ UNCHANGED <<menus, nextId, fk, nops, prev, last, tree>>

\* the callback returned nil: gorm commits, the writes become visible
TxCommit(p) ==
    /\ procs[p].pc = "written"
    /\ menus' = procs[p].work
    /\ procs' = [procs EXCEPT ![p].pc = "committed"]
    /\ UNCHANGED <<nextId, fk, nops, prev, last, tree>>

\* a statement or the commit returned an error: gorm rolls back
TxFail(p) ==
    /\ procs[p].pc \in {"begin", "shifted", "written"}
    /\ procs' = [procs EXCEPT ![p].pc = "aborted"]
    /\ UNCHANGED <<menus, nextId, fk, nops, prev, last, tree>>

\* another request reads the table: prev is what it saw
TxRead ==
    /\ prev' = menus
    /\ UNCHANGED <<menus, nextId, fk, nops, last, tree, procs>>

NextTx ==
    \/ \E p \in DOMAIN procs :
          TxShift(p) \/ TxSet(p) \/ TxCommit(p) \/ TxFail(p)
    \/ TxRead

SpecTx == InitTx /\ [][NextTx]_vars

(* ================================ C20 ================================== *)
\* the table after the whole of the call t: its shift and its write
C20_Whole(t) ==
    IF t.op = "Reorder"
    THEN ReorderTx(t.base, t.id, t.row.parent_id, t.actualOldIndex, t.newIndex)
    ELSE InsertRow(IF t.shift
                   THEN ShiftForInsert(t.base, t.row.parent_id, t.newIndex)
                   ELSE t.base,
                   t.id, t.row)

\* C20: the shift and the set of one call are one atomic step: the table, and
\* what any other request reads of it, is the table before the call or the
\* table after both the shift and the write; after a failed transaction it is
\* the table before the call, after a commit the table after both.
C20_ShiftAndSetAtomic ==
    \A p \in DOMAIN procs :
        LET t == procs[p]
        IN  /\ menus \in {t.base, C20_Whole(t)}
            /\ prev \in {t.base, C20_Whole(t)}
            /\ t.pc = "aborted" => menus = t.base
            /\ t.pc = "committed" => menus = C20_Whole(t)
            /\ t.pc \notin {"committed"} => menus = t.base

\* a transaction that had shifted siblings failed and left the table as it was
C20_Witness ==
    /\ procs # <<>>
    /\ procs[1].pc = "aborted"
    /\ procs[1].work # procs[1].base
    /\ menus = procs[1].base
    /\ prev = procs[1].base

(* -------------------- two concurrent Create requests -------------------- *)
\* the writes of CreateMenu's transaction, given the sibling count the call
\* read before them: the optional shift and the insert
CreateTx(store, id, menu, siblingCount) ==
    IF menu.order_index >= siblingCount
    THEN InsertRow(store, id, [menu EXCEPT !.order_index = siblingCount])
    ELSE InsertRow(ShiftForInsert(store, menu.parent_id, menu.order_index),
                   id, menu)

\* a CreateMenu call in flight: the row to insert, the position in the
\* function, and the local siblingCount
CreateProc(id, parentID, orderIndex) ==
    [id |-> id, menu |-> Menu(parentID, "a", Some("p"), Some("i"), orderIndex),
     pc |-> "count", siblingCount |-> 0]

\* the sibling groups of the store the two calls may target
ConcGroups == {Null, Some(1)}

InitConcCreate ==
    /\ fk \in BOOLEAN
    /\ menus = Roots(MaxIds - 2)
    /\ prev = Roots(MaxIds - 2)
    /\ nextId = MaxIds
    /\ nops = 0
    /\ last = NoCall
    /\ tree = <<>>
    /\ \E g \in ConcGroups, a, b \in 0..MaxIdx :
          procs = <<CreateProc(MaxIds - 1, g, a), CreateProc(MaxIds, g, b)>>

\* s.getSiblingCount(menu.ParentID), a read on s.db
CreateCount(p) ==
    /\ procs[p].pc = "count"
    /\ procs' = [procs EXCEPT ![p] =
                    [procs[p] EXCEPT
                        !.siblingCount =
                            getSiblingCount(menus, procs[p].menu.parent_id),
                        !.pc = "tx"]]
    /\ UNCHANGED <<menus, nextId, fk, nops, prev, last, tree>>

\* the shift (when OrderIndex < siblingCount) and tx.Create, committed
\* together; a foreign-key failure of the insert rolls both back
CreateShiftAndInsert(p) ==
    /\ procs[p].pc = "tx"
    /\ LET after == CreateTx(menus, procs[p].id, procs[p].menu,
                             procs[p].siblingCount)
       IN  menus' = IF FKViolated(after) THEN menus ELSE after
    /\ procs' = [procs EXCEPT ![p].pc = "done"]
    /\ UNCHANGED <<nextId, fk, nops, prev, last, tree>>

NextConcCreate ==
    \E p \in 1..2 : CreateCount(p) \/ CreateShiftAndInsert(p)

SpecConcCreate == InitConcCreate /\ [][NextConcCreate]_vars

(* ================================ C21 ================================== *)
\* the store after the Create of process a and then that of process b, run
\* one after the other on the initial store
C21_OneAfterTheOther(a, b) ==
    CreateMenu(CreateMenu(prev, procs[a].id, procs[a].menu).store,
               procs[b].id, procs[b].menu).store

\* C21: two concurrent Creates into one sibling group: in every interleaving
\* the two new rows get different order_index values and the group stays
\* dense, as if the calls had run one after the other.
C21_ConcurrentCreatesSerialize ==
    (\A p \in 1..2 : procs[p].pc = "done") =>
        /\ menus[procs[1].id].order_index # menus[procs[2].id].order_index
        /\ Dense(menus, procs[1].menu.parent_id)
        /\ menus \in {C21_OneAfterTheOther(1, 2), C21_OneAfterTheOther(2, 1)}

(* ================================ C22 ================================== *)
\* C22: an Update whose order_index is present and differs from the stored
\* order_index v repositions the row exactly as Reorder(id, order_index,
\* old_index = v) does, for every order_index >= 0, before the other columns
\* are written.
C22_UpdateRepositionsAsReorder ==
    (Acted("Update")
     /\ last.id \in DOMAIN prev
     /\ last.req.order_index # Null
     /\ last.req.order_index[1] # prev[last.id].order_index) =>
        menus = UpdateColumns(
                    ReorderMenu(prev, last.id, last.req.order_index[1],
                                Some(prev[last.id].order_index)).store,
                    last.id, UpdateMenuModel(last.req))

(* ================================ C23 ================================== *)
\* C23: Update is all-or-nothing: when it returns an error, no order_index
\* and no other column of any row has changed.
C23_UpdateAllOrNothing ==
    (last.op = "Update" /\ last.err # "") => menus = prev

(* ================================ C24 ================================== *)
\* the parent relation of the store has a cycle
HasCycle(store) == \E i \in DOMAIN store : i \in AncestorsOf(store, i)

\* some parent_id of the store names no row
HasDangling(store) ==
    \E i \in DOMAIN store :
        store[i].parent_id # Null /\ store[i].parent_id[1] \notin DOMAIN store

\* C24: GetTree terminates and returns a finite forest for every store
\* content, cycles and dangling parent_ids included: whenever the server is
\* idle the call can complete, and the forest it returns has at most one
\* place per row of the store.
C24_GetTreeTerminates ==
    /\ Idle => ENABLED GetTree
    /\ last.op = "GetTree" =>
          /\ last.err = ""
          /\ Len(Places(tree, Null)) <= Cardinality(DOMAIN menus)

\* GetTree has returned on a store with a parent cycle and a dangling parent
C24_Witness ==
    /\ last.op = "GetTree"
    /\ HasCycle(menus)
    /\ HasDangling(menus)
    /\ Len(tree) > 0

(* ================================ C25 ================================== *)
C25_Case == Acted("Reorder") /\ last.id \in DOMAIN prev

\* C25: a successful Reorder changes order_index only for rows that share the
\* target row's parent_id, and changes no row's parent_id, title, path or
\* icon.
C25_ReorderStaysInGroup ==
    C25_Case =>
        /\ DOMAIN menus = DOMAIN prev
        /\ \A i \in DOMAIN prev :
              /\ menus[i] = [prev[i] EXCEPT !.order_index = menus[i].order_index]
              /\ prev[i].parent_id # prev[last.id].parent_id =>
                    menus[i].order_index = prev[i].order_index

\* a child is reordered among its siblings while a root row exists at the
\* indices the shift covers
C25_Witness ==
    /\ C25_Case
    /\ prev[last.id].parent_id # Null
    /\ getSiblingCount(prev, prev[last.id].parent_id) = 2
    /\ menus[last.id].order_index # prev[last.id].order_index
    /\ \E i \in DOMAIN prev : prev[i].parent_id = Null /\ menus[i] = prev[i]

(* ================================ C26 ================================== *)
C26_Case == Acted("Delete") /\ last.id \in DOMAIN prev

\* C26: Delete does not renumber: every row that remains after Delete(X) has
\* the order_index, parent_id, title, path and icon it had before.
C26_DeleteKeepsSurvivors ==
    C26_Case =>
        /\ DOMAIN menus \subseteq DOMAIN prev
        /\ \A i \in DOMAIN menus : menus[i] = prev[i]

\* the first of two siblings is deleted and the other keeps order_index 1
C26_Witness ==
    /\ C26_Case
    /\ prev[last.id].order_index = 0
    /\ \E i \in DOMAIN menus :
          /\ menus[i].parent_id = prev[last.id].parent_id
          /\ menus[i].order_index = 1

(* ================================ C28 ================================== *)
\* C28: order_index is never negative: in every state reached by calls that
\* pass request validation, a caller-supplied stale old_index included, every
\* row's order_index is >= 0.
C28_OrderIndexNonNegative ==
    \A i \in DOMAIN menus : menus[i].order_index >= 0

\* a Reorder with an old_index that is not the stored one shifted a sibling
\* down to 0
C28_Witness ==
    /\ Acted("Reorder")
    /\ last.id \in DOMAIN prev
    /\ last.req.old_index # Null
    /\ last.req.old_index[1] # prev[last.id].order_index
    /\ \E i \in DOMAIN prev \ {last.id} :
          prev[i].order_index = 1 /\ menus[i].order_index = 0

(* ================================ C29 ================================== *)
\* the chain of parent_id links from row i reaches a row with parent_id null
\* through rows of the store, in at most n links
RECURSIVE ReachesRoot(_, _, _)
ReachesRoot(store, i, n) ==
    IF store[i].parent_id = Null THEN TRUE
    ELSE IF n = 0 \/ store[i].parent_id[1] \notin DOMAIN store THEN FALSE
    ELSE ReachesRoot(store, store[i].parent_id[1], n - 1)

Rooted(store) ==
    {i \in DOMAIN store : ReachesRoot(store, i, Cardinality(DOMAIN store))}

\* C29: the forest GetTree returns holds exactly the rows whose parent chain
\* reaches a row with parent_id null through rows of the store; a row with a
\* missing parent, or on or below a parent cycle, is nowhere in it; no row is
\* in it more than once.
C29_TreeHoldsRootedRows ==
    last.op = "GetTree" =>
        LET ps == Places(tree, Null)
        IN  /\ {ps[k].id : k \in 1..Len(ps)} = Rooted(menus)
            /\ Len(ps) = Cardinality(Rooted(menus))

\* GetTree on a store with a rooted child, and a row below a missing parent
C29_Witness ==
    /\ last.op = "GetTree"
    /\ \E i \in Rooted(menus) : menus[i].parent_id # Null
    /\ \E i \in DOMAIN menus \ Rooted(menus) :
          menus[i].parent_id[1] \notin DOMAIN menus
    /\ Len(Places(tree, Null)) = 2

(* ------------- two concurrent calls on different sibling groups --------- *)
\* the request in flight p is a ReorderMenu call (else a CreateMenu call)
IsReorderProc(p) == "new_index" \in DOMAIN procs[p]

\* the stores the two calls start on: root rows only
DisjointStores == {Roots(MaxIds - 2), Roots(MaxIds - 1)}

\* the Reorder calls on the rows of the store, all in the root group
DisjointReorders(store) ==
    {[ReorderProc(i, n) EXCEPT !.old_index = o] :
        i \in DOMAIN store, n \in 0..MaxIdx, o \in OptIndex}

\* the Create calls of a fresh id under one of the parents
DisjointCreates(id, parents) ==
    {CreateProc(id, g, n) : g \in parents, n \in 0..MaxIdx}

InitDisjoint ==
    /\ fk \in BOOLEAN
    /\ menus \in DisjointStores
    /\ prev = menus
    /\ nextId = MaxIds
    /\ nops = 0
    /\ last = NoCall
    /\ tree = <<>>
    /\ \E b \in DisjointCreates(MaxIds, {Some(i) : i \in DOMAIN menus}) :
          \E a \in DisjointReorders(menus)
                    \cup (IF MaxIds - 1 \in DOMAIN menus THEN {}
                          ELSE DisjointCreates(MaxIds - 1,
                                   {Null} \cup ({Some(i) : i \in DOMAIN menus}
                                                    \ {b.menu.parent_id}))) :
             procs = <<a, b>>

NextDisjoint ==
    \E p \in 1..2 :
        \/ IsReorderProc(p)
           /\ (ReadNode(p) \/ CountSiblings(p) \/ ShiftAndSet(p))
        \/ ~IsReorderProc(p)
           /\ (CreateCount(p) \/ CreateShiftAndInsert(p))

SpecDisjoint == InitDisjoint /\ [][NextDisjoint]_vars

(* ================================ C27 ================================== *)
\* the store after the whole call of process p, run alone on store
C27_Alone(store, p) ==
    IF IsReorderProc(p)
    THEN ReorderMenu(store, procs[p].id, procs[p].new_index,
                     procs[p].old_index).store
    ELSE CreateMenu(store, procs[p].id, procs[p].menu).store

\* C27: two Create / Reorder calls that target sibling groups with different
\* parent_id values are independent: every interleaving of their steps ends
\* in the store that running them one after the other gives, in either order.
C27_DisjointGroupsIndependent ==
    (\A p \in 1..2 : procs[p].pc = "done") =>
        /\ menus = C27_Alone(C27_Alone(prev, 1), 2)
        /\ menus = C27_Alone(C27_Alone(prev, 2), 1)

\* a Reorder that moved a root and a Create under a root have both finished
C27_Witness ==
    /\ DOMAIN procs = 1..2
    /\ \A p \in 1..2 : procs[p].pc = "done"
    /\ IsReorderProc(1)
    /\ ~IsReorderProc(2)
    /\ menus[procs[1].id].order_index # prev[procs[1].id].order_index
    /\ procs[2].id \in DOMAIN menus
    /\ menus = C27_Alone(C27_Alone(prev, 1), 2)

(* ------------- a Delete concurrent with a Create and a reader ----------- *)
\* n rows: the root row 1 and the rows 2..n under it
RECURSIVE Family(_)
Family(n) ==
    IF n <= 1 THEN Roots(n)
    ELSE CreateMenu(Family(n - 1), n,
                    Menu(Some(1), "a", Some("p"), Some("i"), n - 2)).store

\* a DeleteMenu call in flight on the store base
DeleteProc(id, store) == [id |-> id, pc |-> "children", base |-> store]

IsCreateProc(p) == "siblingCount" \in DOMAIN procs[p]

InitConcDelete ==
    /\ fk \in BOOLEAN
    /\ menus = Family(MaxIds - 1)
    /\ prev = menus
    /\ nextId = MaxIds
    /\ nops = 0
    /\ last = NoCall
    /\ tree = <<>>
    /\ \E x \in DOMAIN menus, n \in 0..MaxIdx :
          procs = <<DeleteProc(x, menus), CreateProc(MaxIds, Some(x), n)>>

\* s.db.Where("parent_id = ?", id).Delete(&Menu{}), committed on its own
DeleteChildren(p) ==
    /\ procs[p].pc = "children"
    /\ menus' = DeleteRows(menus, Siblings(menus, Some(procs[p].id)))
    /\ procs' = [procs EXCEPT ![p].pc = "row"]
    /\ UNCHANGED <<nextId, fk, nops, prev, last, tree>>

\* s.db.Where("id = ?", id).Delete(&Menu{})
DeleteRow(p) ==
    /\ procs[p].pc = "row"
    /\ menus' = DeleteRows(menus, {procs[p].id} \cap DOMAIN menus)
    /\ procs' = [procs EXCEPT ![p].pc = "done"]
    /\ UNCHANGED <<nextId, fk, nops, prev, last, tree>>

\* the second DELETE returns an error: DeleteMenu returns it
DeleteRowFails(p) ==
    /\ procs[p].pc = "row"
    /\ procs' = [procs EXCEPT ![p].pc = "done"]
    /\ UNCHANGED <<menus, nextId, fk, nops, prev, last, tree>>

NextConcDelete ==
    \/ \E p \in 1..2 :
          \/ ~IsCreateProc(p)
             /\ (DeleteChildren(p) \/ DeleteRow(p) \/ DeleteRowFails(p))
          \/ IsCreateProc(p)
             /\ (CreateCount(p) \/ CreateShiftAndInsert(p))
    \/ TxRead

SpecConcDelete == InitConcDelete /\ [][NextConcDelete]_vars

(* ================================ C30 ================================== *)
\* in store the row X of the Delete in flight is present while the direct
\* children it had when the call began are gone
C30_Partial(store) ==
    LET x == procs[1].id
        kids == Siblings(procs[1].base, Some(x))
    IN  /\ x \in DOMAIN store
        /\ kids # {}
        /\ kids \cap DOMAIN store = {}

\* C30: Delete(X) is atomic: no request reads, and no failure leaves, a store
\* in which X's direct children are removed and X is still present; and after
\* Delete(X) and a concurrent Create of a child under X have both completed,
\* no row has parent_id X.
C30_DeleteAtomic ==
    /\ ~C30_Partial(prev)
    /\ procs[1].pc = "done" => ~C30_Partial(menus)
    /\ (\A p \in 1..2 : procs[p].pc = "done") =>
          \A i \in DOMAIN menus : menus[i].parent_id # Some(procs[1].id)

====
